---------------------------- MODULE Spec2Model ----------------------------
(***************************************************************************)
(* Model of the web-to-printer gateway in main.py: the pixel-width text    *)
(* wrapper, the ticket layout of render_text_ticket, the image scaling of  *)
(* the upload handlers, the authentication checks and the MQTT publish     *)
(* envelope, with the eight print handlers as request state machines.      *)
(*                                                                         *)
(* Text is a sequence of one-character strings.  Widths are kept in        *)
(* sub-pixel units so that int(font.getlength(txt)) truncates as in the    *)
(* code.                                                                   *)
(***************************************************************************)
EXTENDS Integers, Sequences, FiniteSets, TLC

VARIABLES
  \* the wrapper under test: input text, font, budget, result, re-wrapped lines
  wtext, wfont, wmax, wpc, wlines, wre,
  \* render_text_ticket under test: arguments, font files present, the
  \* wrapped records, total_h, and the ticket rendered before this one
  ttitle, tlines, tadd, tfontsOk, tpc, twrapped, th, tprev,
  \* the server: the clock (days), the browser's cookie jar, and per request
  \* slot the request received, the handler's position, its bitmap, the
  \* client.publish calls it made and its response
  now, jar, rq, pc, bitmap, calls, resp

wvars == <<wtext, wfont, wmax, wpc, wlines, wre>>
tvars == <<ttitle, tlines, tadd, tfontsOk, tpc, twrapped, th, tprev>>
rvars == <<now, jar, rq, pc, bitmap, calls, resp>>
vars == <<wvars, tvars, rvars>>

(***************************************************************************)
(* Bounds of the model.                                                    *)
(***************************************************************************)
\* longest input text of the wrapper specification, in characters
MaxLen == 5
\* largest width budget (pixels) of the wrapper specification
MaxPx == 5
\* most body lines of a ticket in the layout specification
MaxBodyLines == 2
\* request slots handled concurrently
NumReqs == 2
\* the clock stops at MaxNow days and advances TickDays at a time
MaxNow == 40
TickDays == 10
\* uploaded images are up to MaxImgW x MaxImgH, besides the listed sizes
MaxImgW == 40
MaxImgH == 60

(***************************************************************************)
(* Strings.                                                                *)
(***************************************************************************)
Chars == {"a", "b", " "}

RECURSIVE TextsUpTo(_)
TextsUpTo(n) ==
  IF n = 0 THEN {<<>>}
  ELSE LET shorter == TextsUpTo(n - 1)
       IN shorter \cup {Append(t, c) : t \in {s \in shorter : Len(s) = n - 1}, c \in Chars}

\* str.split() without arguments: runs of whitespace separate the words,
\* leading and trailing whitespace yields no empty word.
RECURSIVE SplitWords(_, _, _)
SplitWords(text, cur, acc) ==
  IF text = <<>> THEN (IF cur = <<>> THEN acc ELSE Append(acc, cur))
  ELSE IF Head(text) = " "
       THEN SplitWords(Tail(text), <<>>, IF cur = <<>> THEN acc ELSE Append(acc, cur))
       ELSE SplitWords(Tail(text), Append(cur, Head(text)), acc)

split(text) == SplitWords(text, <<>>, <<>>)

\* str.strip(): leading and trailing whitespace removed.
RECURSIVE lstrip(_)
lstrip(text) ==
  IF text # <<>> /\ Head(text) = " " THEN lstrip(Tail(text)) ELSE text

RECURSIVE rstrip(_)
rstrip(text) ==
  IF text # <<>> /\ text[Len(text)] = " "
  THEN rstrip(SubSeq(text, 1, Len(text) - 1))
  ELSE text

strip(text) == rstrip(lstrip(text))

(***************************************************************************)
(* Fonts and text_width.                                                   *)
(***************************************************************************)
\* sub-pixel units per pixel of a font's advance widths
SubPx == 2

\* A font: the advance of each character in sub-pixel units, and whether the
\* font object offers getlength (Pillow 10+) or only getbbox.
Font(a, b, sp, gl) == [adv |-> [c \in Chars |-> IF c = "a" THEN a ELSE IF c = "b" THEN b ELSE sp],
                       getlength |-> gl]

RECURSIVE Advance(_, _)
Advance(txt, font) ==
  IF txt = <<>> THEN 0 ELSE font.adv[Head(txt)] + Advance(Tail(txt), font)

\* int(font.getlength(txt)) truncates the fractional advance; the fallback
\* bbox[2] - bbox[0] is the integer pixel box that covers the advance.
text_width(txt, font) ==
  IF font.getlength
  THEN Advance(txt, font) \div SubPx
  ELSE (Advance(txt, font) + SubPx - 1) \div SubPx

(***************************************************************************)
(* wrap_by_pixels.                                                         *)
(***************************************************************************)
\* test = f"{line} {word}"
Joined(line, word) == line \o <<" ">> \o word

FitsWordOnly(line, word, font, max_px) == text_width(word, font) <= max_px

\* if text_width(test, font) <= max_px
Fits(line, word, font, max_px) == text_width(Joined(line, word), font) <= max_px

FlushDropped(lines, line) == lines

\* lines.append(line) after the loop
Flush(lines, line) == Append(lines, line)

\* the for loop over words[1:]
RECURSIVE WrapLoop(_, _, _, _, _)
WrapLoop(words, line, lines, font, max_px) ==
  IF words = <<>> THEN Flush(lines, line)
  ELSE IF Fits(line, Head(words), font, max_px)
       THEN WrapLoop(Tail(words), Joined(line, Head(words)), lines, font, max_px)
       ELSE WrapLoop(Tail(words), Head(words), Append(lines, line), font, max_px)

wrap_by_pixels(text, font, max_px) ==
  LET words == split(text)
  IN IF words = <<>> THEN << <<>> >>
     ELSE WrapLoop(Tail(words), Head(words), <<>>, font, max_px)

(***************************************************************************)
(* Configuration (defaults of the environment variables) and layout.       *)
(***************************************************************************)
PRINT_WIDTH_PX == 576
SIZE_BODY == 28
MARGIN_X == 20
MARGIN_Y == 20
EXTRA_BOTTOM == 30
\* the 10 px added to SIZE_BODY for the line pitch and the date block
LINE_GAP == 10
\* total_h = max(total_h, 120)
MIN_HEIGHT == 120

\* sample metrics of the configured TrueType fonts and of Pillow's built-in
\* default font (sub-pixel advances of "a", "b", " ")
FontTitleTTF == Font(40, 44, 20, TRUE)
FontBodyTTF == Font(34, 38, 18, TRUE)
DefaultFont == Font(12, 12, 12, FALSE)

\* ImageFont.truetype(path, size), or load_default() when that raises
safe_load_font(loads, ttf) == IF loads THEN ttf ELSE DefaultFont

max_text_width == PRINT_WIDTH_PX - 2 * MARGIN_X

\* date_str = now_str() if add_datetime else None; now_str() is never empty
NowStr == <<"a", "a">>
NoDate == <<"None">>
date_str(add_datetime) == IF add_datetime THEN NowStr ELSE NoDate

\* if date_str: date_block_height = SIZE_BODY + 10
date_block_height(add_datetime) ==
  IF date_str(add_datetime) # NoDate /\ date_str(add_datetime) # <<>>
  THEN SIZE_BODY + LINE_GAP ELSE 0

Records(kind, texts) == [i \in 1..Len(texts) |-> [kind |-> kind, text |-> texts[i]]]

TitleNotStripped(title) == title # <<>>

\* if title and title.strip()
TitleNonEmpty(title) == title # <<>> /\ strip(title) # <<>>

TitleRecords(title, font_title) ==
  IF TitleNonEmpty(title)
  THEN Records("title", wrap_by_pixels(strip(title), font_title, max_text_width))
  ELSE <<>>

BodyRecordsSkipBlank(ln, font_body) ==
  IF strip(ln) = <<>> THEN <<>>
  ELSE Records("body", wrap_by_pixels(strip(ln), font_body, max_text_width))

\* one iteration of "for ln in lines": a blank line is kept as one empty
\* body record, any other line gives one record per wrapped line
BodyRecords(ln, font_body) ==
  IF strip(ln) = <<>> THEN <<[kind |-> "body", text |-> <<>>]>>
  ELSE Records("body", wrap_by_pixels(strip(ln), font_body, max_text_width))

RECURSIVE BodyLoop(_, _, _)
BodyLoop(lines, wrapped, font_body) ==
  IF lines = <<>> THEN wrapped
  ELSE BodyLoop(Tail(lines), wrapped \o BodyRecords(Head(lines), font_body), font_body)

\* step 2 of render_text_ticket: the list "wrapped"
WrappedRecords(title, lines, font_title, font_body) ==
  BodyLoop(lines, TitleRecords(title, font_title), font_body)

NoClamp(h) == h

\* max(total_h, 120)
ClampMin(h) == IF h > MIN_HEIGHT THEN h ELSE MIN_HEIGHT

\* step 3 of render_text_ticket: total_h
TotalHeight(num_lines, add_datetime) ==
  LET line_h == SIZE_BODY + LINE_GAP
  IN ClampMin(MARGIN_Y + date_block_height(add_datetime) + (num_lines * line_h) + EXTRA_BOTTOM)

(***************************************************************************)
(* IEEE-754 double arithmetic, as far as the image scaling needs it.  A    *)
(* positive double is its 53-bit mantissa, kept as three limbs hi (17      *)
(* bits, leading bit set), mid and lo (18 bits each), and the exponent e   *)
(* of the leading bit: (hi * 2^36 + mid * 2^18 + lo) * 2^(e - 52).         *)
(* Division and multiplication round the exact result to nearest, ties to  *)
(* even; int() truncates.  Operands are below 2^12.                        *)
(***************************************************************************)
LIMB_BITS == 18

RECURSIVE Pow2(_)
Pow2(k) == IF k = 0 THEN 1 ELSE 2 * Pow2(k - 1)

Limb == Pow2(LIMB_BITS)

\* the number of bits of n >= 1
BitLen(n) == CHOOSE k \in 1..31 : Pow2(k - 1) <= n /\ (k = 31 \/ n < Pow2(k))

\* floor(log2(a / b)) for positive integers
ExpOf(a, b) ==
  IF a >= b THEN CHOOSE k \in 0..12 : b * Pow2(k) <= a /\ a < b * Pow2(k + 1)
  ELSE 0 - (CHOOSE k \in 1..12 : a * Pow2(k) >= b /\ a * Pow2(k - 1) < b)

\* the mantissa m, rounded up by one unit in the last place when the
\* discarded part is above one half, or exactly one half and m is odd
RoundNearestEven(hi, mid, lo, e, half, more) ==
  IF ~(half /\ (more \/ lo % 2 = 1)) THEN [hi |-> hi, mid |-> mid, lo |-> lo, e |-> e]
  ELSE IF lo + 1 < Limb THEN [hi |-> hi, mid |-> mid, lo |-> lo + 1, e |-> e]
  ELSE IF mid + 1 < Limb THEN [hi |-> hi, mid |-> mid + 1, lo |-> 0, e |-> e]
  ELSE IF hi + 1 < Pow2(LIMB_BITS - 1) THEN [hi |-> hi + 1, mid |-> 0, lo |-> 0, e |-> e]
  ELSE [hi |-> Pow2(LIMB_BITS - 2), mid |-> 0, lo |-> 0, e |-> e + 1]

\* long division of num / den (in [1, 2)) to 53 bits, a half bit and the rest
DivRound(num, den, e) ==
  LET r0 == num - den
      t1 == r0 * Pow2(LIMB_BITS - 2)
      r1 == t1 % den
      t2 == r1 * Limb
      r2 == t2 % den
      t3 == r2 * Limb
      r3 == t3 % den
  IN RoundNearestEven(Pow2(LIMB_BITS - 2) + t1 \div den, t2 \div den, t3 \div den, e,
                      2 * r3 >= den, (2 * r3) % den # 0)

\* a / b for positive integers, as a double
FloatDiv(a, b) ==
  IF ExpOf(a, b) >= 0
  THEN DivRound(a, b * Pow2(ExpOf(a, b)), ExpOf(a, b))
  ELSE DivRound(a * Pow2(0 - ExpOf(a, b)), b, ExpOf(a, b))

\* the exact product p2 * 2^36 + l1 * 2^18 + l0, shifted right by s bits to
\* 53 bits and rounded
ShiftRound(p2, l1, l0, s, e) ==
  RoundNearestEven(p2 \div Pow2(s),
                   l1 \div Pow2(s) + (p2 % Pow2(s)) * Pow2(LIMB_BITS - s),
                   l0 \div Pow2(s) + (l1 % Pow2(s)) * Pow2(LIMB_BITS - s),
                   e + s,
                   s > 0 /\ (l0 \div Pow2(IF s > 0 THEN s - 1 ELSE 0)) % 2 = 1,
                   s > 1 /\ l0 % Pow2(IF s > 0 THEN s - 1 ELSE 0) # 0)

\* h * x for a positive integer h and a double x, as a double
FloatMulInt(h, x) ==
  LET p0 == x.lo * h
      p1 == x.mid * h + p0 \div Limb
      p2 == x.hi * h + p1 \div Limb
  IN ShiftRound(p2, p1 % Limb, p0 % Limb, BitLen(p2) - (LIMB_BITS - 1), x.e)

\* int(x): truncation toward zero, for x below 2^31
FloatToInt(x) ==
  IF x.e < 0 THEN 0
  ELSE IF x.e <= LIMB_BITS - 2 THEN x.hi \div Pow2(LIMB_BITS - 2 - x.e)
  ELSE x.hi * Pow2(x.e - (LIMB_BITS - 2)) + x.mid \div Pow2(2 * LIMB_BITS - 2 - x.e)

ResizeHeightRounded(w, h) == (2 * h * PRINT_WIDTH_PX + w) \div (2 * w)

\* int(h * (PRINT_WIDTH_PX / w))
ResizeHeight(w, h) == FloatToInt(FloatMulInt(h, FloatDiv(PRINT_WIDTH_PX, w)))

(***************************************************************************)
(* Security: check_api_key, sign_token, verify_token, require_ui_auth,     *)
(* ui_auth_state.  A header, parameter or form value is a string, None     *)
(* when absent.  A token "ts.sig" is the sequence of its "."-separated     *)
(* parts; the absent (or empty) cookie is the empty sequence.              *)
(***************************************************************************)
APP_API_KEY == "change_me"
UI_PASS == "set_me"
UI_REMEMBER_DAYS == 30
None == "<None>"

\* Python's "a or b" on optional strings
PyOr(a, b) == IF a = None \/ a = "" THEN b ELSE a

\* hmac.new(key, msg, sha256).hexdigest()[:32], kept symbolic
Hmac(key, msg) == <<"hmac", key, msg>>

CheckApiKeyLax(q) ==
  PyOr(q.hdr, q.qry) = APP_API_KEY \/ PyOr(q.hdr, q.qry) = None

\* check_api_key does not raise HTTPException(401)
check_api_key(q) == PyOr(q.hdr, q.qry) = APP_API_KEY

sign_token(ts) == <<ts, Hmac(APP_API_KEY, ts)>>

VerifyTokenNoExpiry(token, t) ==
  IF Len(token) # 2 THEN FALSE
  ELSE sign_token(token[1]) = token

\* ts, _sig = token.split(".") raises unless there are two parts
verify_token(token, t) ==
  IF Len(token) # 2 THEN FALSE
  ELSE IF sign_token(token[1]) # token THEN FALSE
  ELSE t - token[1] < UI_REMEMBER_DAYS

require_ui_auth(q, t) ==
  IF PyOr(q.hdr, q.qry) = APP_API_KEY THEN TRUE
  ELSE q.cookie # <<>> /\ verify_token(q.cookie, t)

\* (authed, should_set_cookie)
ui_auth_state(q, t) ==
  IF require_ui_auth(q, t) THEN <<TRUE, FALSE>>
  ELSE IF q.pass # None /\ q.pass = UI_PASS THEN <<TRUE, q.remember>>
  ELSE <<FALSE, FALSE>>

ui_handle_auth_and_cookie(q, t) ==
  IF ~ui_auth_state(q, t)[1] THEN <<FALSE, FALSE>>
  ELSE <<TRUE, ui_auth_state(q, t)[2]>>

(***************************************************************************)
(* Bitmaps and the publish envelope.  A bitmap is its size and the request *)
(* it was made for.                                                        *)
(***************************************************************************)
NoBitmap == [owner |-> 0, w |-> 0, h |-> 0]

\* img.convert("1"), PNG, base64: a 1-bit PNG of the same size
pil_to_base64_png(img) == [format |-> "png", bits |-> 1, owner |-> img.owner, w |-> img.w, h |-> img.h]

\* the payload of mqtt_publish_image_base64 (ticket_id left out: it is a
\* fresh time-and-random string)
Payload(b64_png, cut_paper) ==
  [data_type |-> "png", data_base64 |-> b64_png, paper_type |-> 0,
   paper_width_mm |-> 0, paper_height_mm |-> 0, cut_paper |-> cut_paper]

\* what client.publish can do with a message: take it (rc = MQTT_ERR_SUCCESS),
\* return an MQTTMessageInfo with another rc (MQTT_ERR_NO_CONN when the
\* connection is down, MQTT_ERR_QUEUE_SIZE when the queue is full), or raise
PublishOutcomes == {"accepted", "rc_error", "raises"}

PublishWithRetry(b64_png, cut_paper, outcome) ==
  IF outcome = "accepted"
  THEN <<[msg |-> Payload(b64_png, cut_paper), outcome |-> outcome]>>
  ELSE <<[msg |-> Payload(b64_png, cut_paper), outcome |-> outcome],
         [msg |-> Payload(b64_png, cut_paper), outcome |-> outcome]>>

\* the client.publish calls of one mqtt_publish_image_base64 call: one
\* message, whose returned rc is dropped
mqtt_publish_image_base64(b64_png, cut_paper, outcome) ==
  <<[msg |-> Payload(b64_png, cut_paper), outcome |-> outcome]>>

\* mqtt_publish_image_base64 re-raises only what client.publish raised
PublishRaises(outcome) == outcome = "raises"

CutAlways(cut) == 1

\* cut_paper=(1 if p.cut else 0); PrintPayload.cut defaults to True
CutPaper(cut) == IF (IF cut = "absent" THEN TRUE ELSE cut = "true") THEN 1 ELSE 0

\* the bitmap render_text_ticket draws for a request
TicketBitmap(r, title, lines, add_datetime) ==
  [owner |-> r, w |-> PRINT_WIDTH_PX,
   h |-> TotalHeight(Len(WrappedRecords(title, lines, FontTitleTTF, FontBodyTTF)), add_datetime)]

\* img.resize((PRINT_WIDTH_PX, int(h * (PRINT_WIDTH_PX / w)))) if w differs
\* from PRINT_WIDTH_PX; Pillow's resize raises for a height below 1
ResizeRaises(file) == file.w # PRINT_WIDTH_PX /\ ResizeHeight(file.w, file.h) < 1

ImageBitmap(r, file) ==
  IF file.w # PRINT_WIDTH_PX
  THEN [owner |-> r, w |-> PRINT_WIDTH_PX, h |-> ResizeHeight(file.w, file.h)]
  ELSE [owner |-> r, w |-> file.w, h |-> file.h]

(***************************************************************************)
(* Requests.  A handler runs in three steps: the authentication check at   *)
(* its entry, the body that reads and renders, and the publish with the    *)
(* response.  Other requests' steps may come in between.                   *)
(***************************************************************************)
Reqs == 1..NumReqs

BadFile == [ok |-> FALSE, w |-> 1, h |-> 1]
NoReq == [ep |-> "none", hdr |-> None, qry |-> None, cookie |-> <<>>, pass |-> None,
          remember |-> FALSE, cut |-> "absent", text |-> <<>>, file |-> BadFile,
          at |-> 0, set_cookie |-> FALSE]
NoResp == [status |-> "none", cookie |-> <<>>]
DefaultText == <<"a">>

\* the inputs a specification draws: "small" for concurrent requests,
\* "auth" for the credentials, "image" for the uploaded sizes
Hdrs(P) == IF P = "auth" THEN {None, "", "wrong", APP_API_KEY} ELSE {None, APP_API_KEY}
Qrys(P) == IF P = "auth" THEN {None, "wrong", APP_API_KEY} ELSE {None}
Cookies(P) ==
  IF P = "auth"
  THEN {<<>>, jar, <<now, Hmac("wrong", now)>>, <<now>>, sign_token(now) \o <<"x">>}
  ELSE {<<>>}
Passes(P) == IF P = "auth" THEN {None, "wrong", UI_PASS} ELSE {None, UI_PASS}
Remembers(P) == IF P = "auth" THEN BOOLEAN ELSE {FALSE}
Cuts(P) == IF P = "small" THEN {"absent", "true", "false"} ELSE {"absent"}
Texts(P) == IF P = "small" THEN {<<>>, DefaultText} ELSE {DefaultText}
Files(P) ==
  IF P = "image"
  THEN {BadFile} \cup {[ok |-> TRUE, w |-> w, h |-> h] :
                        w \in (1..MaxImgW) \cup {288, PRINT_WIDTH_PX, 1152, 1200}, h \in 1..MaxImgH}
  ELSE {BadFile, [ok |-> TRUE, w |-> 1200, h |-> 25]}

\* the credentials of a request
Creds(P) ==
  {[NoReq EXCEPT !.hdr = c[1], !.qry = c[2], !.cookie = c[3], !.pass = c[4], !.remember = c[5]] :
     c \in Hdrs(P) \X Qrys(P) \X Cookies(P) \X Passes(P) \X Remembers(P)}

\* the handler's entry, for an idle slot: the request is bound and
\* authenticated
Enter(r, ep, q, auth, denied) ==
  /\ rq' = [rq EXCEPT ![r] = [q EXCEPT !.ep = ep, !.at = now, !.set_cookie = auth[2]]]
  /\ pc' = [pc EXCEPT ![r] = IF auth[1] THEN "authed" ELSE "done"]
  /\ resp' = [resp EXCEPT ![r] = IF auth[1] THEN NoResp ELSE [status |-> denied, cookie |-> <<>>]]
  /\ UNCHANGED <<now, jar, bitmap, calls, wvars, tvars>>

ApiEnter(r, ep, q) == Enter(r, ep, q, <<check_api_key(q), FALSE>>, "401")
UiEnter(r, ep, q) == Enter(r, ep, q, ui_handle_auth_and_cookie(q, now), "page_err_auth")

\* the handler's body: it fails with a status, or has its bitmap
Body(r, ep, fails, status, img) ==
  /\ pc[r] = "authed" /\ rq[r].ep = ep
  /\ pc' = [pc EXCEPT ![r] = IF fails THEN "done" ELSE "ready"]
  /\ resp' = [resp EXCEPT ![r] = IF fails THEN [status |-> status, cookie |-> <<>>] ELSE NoResp]
  /\ bitmap' = [bitmap EXCEPT ![r] = IF fails THEN NoBitmap ELSE img]
  /\ UNCHANGED <<now, jar, rq, calls, wvars, tvars>>

\* b64 = pil_to_base64_png(img); mqtt_publish_image_base64(b64, cut_paper);
\* then the response: ok / failed are the statuses without and with an
\* exception, and issue_cookie signs the current time
Publish(r, ep, cut_paper, ok, failed) ==
  /\ pc[r] = "ready" /\ rq[r].ep = ep
  /\ \E outcome \in PublishOutcomes :
       /\ calls' = [calls EXCEPT ![r] =
                      @ \o mqtt_publish_image_base64(pil_to_base64_png(bitmap[r]), cut_paper, outcome)]
       /\ resp' = [resp EXCEPT ![r] =
                     IF PublishRaises(outcome) THEN [status |-> failed, cookie |-> <<>>]
                     ELSE [status |-> ok,
                           cookie |-> IF rq[r].set_cookie THEN sign_token(now) ELSE <<>>]]
  /\ pc' = [pc EXCEPT ![r] = "done"]
  /\ UNCHANGED <<now, jar, rq, bitmap, wvars, tvars>>

\* POST /print
print_job(r, P) ==
  \/ pc[r] = "idle" /\ \E q \in Creds(P), cut \in Cuts(P) :
       ApiEnter(r, "print", [q EXCEPT !.cut = cut, !.text = DefaultText])
  \/ Body(r, "print", FALSE, "500", TicketBitmap(r, rq[r].text, <<rq[r].text>>, TRUE))
  \/ Publish(r, "print", CutPaper(rq[r].cut), "ok", "500")

\* POST /webhook/print
webhook(r, P) ==
  \/ pc[r] = "idle" /\ \E q \in Creds(P), text \in Texts(P) :
       ApiEnter(r, "webhook", [q EXCEPT !.text = text])
  \/ Body(r, "webhook", rq[r].text = <<>>, "400",
          TicketBitmap(r, <<"a", "b">>, <<rq[r].text>>, TRUE))
  \/ Publish(r, "webhook", 1, "ok", "500")

\* POST /api/print/template
api_print_template(r, P) ==
  \/ pc[r] = "idle" /\ \E q \in Creds(P), cut \in Cuts(P) :
       ApiEnter(r, "api_template", [q EXCEPT !.cut = cut, !.text = DefaultText])
  \/ Body(r, "api_template", FALSE, "500", TicketBitmap(r, rq[r].text, <<rq[r].text>>, TRUE))
  \/ Publish(r, "api_template", CutPaper(rq[r].cut), "ok", "500")

\* POST /api/print/raw
api_print_raw(r, P) ==
  \/ pc[r] = "idle" /\ \E q \in Creds(P) : ApiEnter(r, "api_raw", [q EXCEPT !.text = DefaultText])
  \/ Body(r, "api_raw", FALSE, "500", TicketBitmap(r, <<>>, <<rq[r].text>>, FALSE))
  \/ Publish(r, "api_raw", 1, "ok", "500")

\* POST /api/print/image
api_print_image(r, P) ==
  \/ pc[r] = "idle" /\ \E q \in Creds(P), file \in Files(P) : ApiEnter(r, "api_image", [q EXCEPT !.file = file])
  \/ Body(r, "api_image", ~rq[r].file.ok \/ ResizeRaises(rq[r].file), "500",
          ImageBitmap(r, rq[r].file))
  \/ Publish(r, "api_image", 1, "ok", "500")

\* POST /ui/print/template
ui_print_template(r, P) ==
  \/ pc[r] = "idle" /\ \E q \in Creds(P) : UiEnter(r, "ui_template", [q EXCEPT !.text = DefaultText])
  \/ Body(r, "ui_template", FALSE, "page_err",
          TicketBitmap(r, strip(rq[r].text), <<strip(rq[r].text)>>, FALSE))
  \/ Publish(r, "ui_template", 1, "page_ok", "page_err")

\* POST /ui/print/raw
ui_print_raw(r, P) ==
  \/ pc[r] = "idle" /\ \E q \in Creds(P) : UiEnter(r, "ui_raw", [q EXCEPT !.text = DefaultText])
  \/ Body(r, "ui_raw", FALSE, "page_err", TicketBitmap(r, <<>>, <<rq[r].text>>, FALSE))
  \/ Publish(r, "ui_raw", 1, "page_ok", "page_err")

\* POST /ui/print/image
ui_print_image(r, P) ==
  \/ pc[r] = "idle" /\ \E q \in Creds(P), file \in Files(P) : UiEnter(r, "ui_image", [q EXCEPT !.file = file])
  \/ Body(r, "ui_image", ~rq[r].file.ok \/ ResizeRaises(rq[r].file), "page_err",
          ImageBitmap(r, rq[r].file))
  \/ Publish(r, "ui_image", 1, "page_ok", "page_err")

\* the response reaches the browser, which keeps a cookie it was sent
Close(r) ==
  /\ pc[r] = "done"
  /\ jar' = IF resp[r].cookie # <<>> THEN resp[r].cookie ELSE jar
  /\ pc' = [pc EXCEPT ![r] = "idle"]
  /\ rq' = [rq EXCEPT ![r] = NoReq]
  /\ resp' = [resp EXCEPT ![r] = NoResp]
  /\ bitmap' = [bitmap EXCEPT ![r] = NoBitmap]
  /\ calls' = [calls EXCEPT ![r] = <<>>]
  /\ UNCHANGED <<now, wvars, tvars>>

\* GET /ui/logout: delete_cookie
ui_logout ==
  /\ jar # <<>>
  /\ jar' = <<>>
  /\ UNCHANGED <<now, rq, pc, bitmap, calls, resp, wvars, tvars>>

\* time passes
Tick ==
  /\ now + TickDays <= MaxNow
  /\ now' = now + TickDays
  /\ UNCHANGED <<jar, rq, pc, bitmap, calls, resp, wvars, tvars>>

Handlers(r, P) ==
  \/ print_job(r, P) \/ webhook(r, P) \/ api_print_template(r, P) \/ api_print_raw(r, P)
  \/ api_print_image(r, P) \/ ui_print_template(r, P) \/ ui_print_raw(r, P)
  \/ ui_print_image(r, P)

\* no request is being handled
ReqIdle ==
  /\ now = 0 /\ jar = <<>>
  /\ rq = [r \in Reqs |-> NoReq]
  /\ pc = [r \in Reqs |-> "idle"]
  /\ bitmap = [r \in Reqs |-> NoBitmap]
  /\ calls = [r \in Reqs |-> <<>>]
  /\ resp = [r \in Reqs |-> NoResp]

(***************************************************************************)
(* Specification of the wrapper: an input text, font and budget are drawn, *)
(* the text is wrapped, then each returned line is wrapped again.          *)
(***************************************************************************)
WrapFonts == {Font(3, 4, 1, TRUE), Font(3, 4, 1, FALSE), Font(1, 6, 1, TRUE)}

\* no ticket was rendered before
NoTicket == [add |-> FALSE, n |-> -1, h |-> -1]

\* the wrapper is not under test
WrapIdle ==
  /\ wtext = <<>> /\ wfont = DefaultFont /\ wmax = 1
  /\ wpc = "off" /\ wlines = <<>> /\ wre = <<>>

\* render_text_ticket is not under test
RenderIdle ==
  /\ ttitle = <<>> /\ tlines = <<>> /\ tadd = FALSE /\ tfontsOk = <<TRUE, TRUE>>
  /\ tpc = "off" /\ twrapped = <<>> /\ th = 0 /\ tprev = NoTicket

InitWrap ==
  /\ RenderIdle /\ ReqIdle
  /\ wtext \in TextsUpTo(MaxLen)
  /\ wfont \in WrapFonts
  /\ wmax \in 1..MaxPx
  /\ wpc = "input"
  /\ wlines = <<>>
  /\ wre = <<>>

Wrap ==
  /\ wpc = "input"
  /\ wlines' = wrap_by_pixels(wtext, wfont, wmax)
  /\ wpc' = "wrapped"
  /\ UNCHANGED <<wtext, wfont, wmax, wre, tvars, rvars>>

Rewrap ==
  /\ wpc = "wrapped"
  /\ Len(wre) < Len(wlines)
  /\ wre' = Append(wre, wrap_by_pixels(wlines[Len(wre) + 1], wfont, wmax))
  /\ UNCHANGED <<wtext, wfont, wmax, wpc, wlines, tvars, rvars>>

NextWrap == Wrap \/ Rewrap

SpecWrap == InitWrap /\ [][NextWrap]_vars

RECURSIVE Flatten(_)
Flatten(ss) == IF ss = <<>> THEN <<>> ELSE Head(ss) \o Flatten(Tail(ss))

IsToken(line) == line # <<>> /\ \A i \in 1..Len(line) : line[i] # " "

\* C1: every returned line measures at most max_px, except a line that is
\* exactly one whitespace-free token of the input whose own width exceeds
\* max_px; the lines hold the input's tokens, whole and in order.
WrapLinesFit ==
  wpc = "wrapped" =>
    /\ \A i \in 1..Len(wlines) :
         \/ text_width(wlines[i], wfont) <= wmax
         \/ /\ IsToken(wlines[i])
            /\ text_width(wlines[i], wfont) > wmax
            /\ \E k \in 1..Len(split(wtext)) : split(wtext)[k] = wlines[i]
    /\ Flatten([i \in 1..Len(wlines) |-> split(wlines[i])]) = split(wtext)

\* an over-long token was emitted alone, and a multi-token line was built
WrapLinesFitWitness ==
  /\ wpc = "wrapped"
  /\ Len(wlines) = 2
  /\ IsToken(wlines[1]) /\ text_width(wlines[1], wfont) > wmax
  /\ Len(split(wlines[2])) = 2

\* C8: wrapping a returned line again, with the same font and budget,
\* returns exactly that line.
WrapIdempotent ==
  \A i \in 1..Len(wre) : wre[i] = <<wlines[i]>>

\* an over-long token and a two-token line, taken from a text with extra
\* blanks, have both been wrapped again
WrapIdempotentWitness ==
  /\ Len(wre) = 2
  /\ Flatten(wlines) # wtext
  /\ IsToken(wlines[1]) /\ text_width(wlines[1], wfont) > wmax
  /\ Len(split(wlines[2])) = 2

(***************************************************************************)
(* Specification of render_text_ticket: a ticket is rendered, then a second *)
(* one; the first ticket's record count and height are remembered, which   *)
(* is what a comparison of two tickets needs.                              *)
(***************************************************************************)
RECURSIVE Rep(_, _)
Rep(c, n) == IF n = 0 THEN <<>> ELSE <<c>> \o Rep(c, n - 1)

\* "", "  ", " a  a ", two 14-letter words (one line in the body font, two
\* in the title font), one 40-letter word (wider than the budget)
TextSamples ==
  { <<>>, <<" ", " ">>, <<" ", "a", " ", " ", "a", " ">>,
    Rep("a", 14) \o <<" ">> \o Rep("a", 14), Rep("a", 40) }

RECURSIVE LinesUpTo(_)
LinesUpTo(n) ==
  IF n = 0 THEN {<<>>}
  ELSE LET shorter == LinesUpTo(n - 1)
       IN shorter \cup {Append(l, t) : l \in {s \in shorter : Len(s) = n - 1}, t \in TextSamples}

\* the next call's arguments; the font files stay as they are
DrawTicket ==
  /\ ttitle' \in TextSamples
  /\ tlines' \in LinesUpTo(MaxBodyLines)
  /\ tadd' \in BOOLEAN
  /\ tfontsOk' = tfontsOk
  /\ tpc' = "input"
  /\ twrapped' = <<>>
  /\ th' = 0

InitRender ==
  /\ WrapIdle /\ ReqIdle
  /\ ttitle \in TextSamples
  /\ tlines \in LinesUpTo(MaxBodyLines)
  /\ tadd \in BOOLEAN
  /\ tfontsOk \in BOOLEAN \X BOOLEAN
  /\ tpc = "input"
  /\ twrapped = <<>>
  /\ th = 0
  /\ tprev = NoTicket

font_title == safe_load_font(tfontsOk[1], FontTitleTTF)
font_body == safe_load_font(tfontsOk[2], FontBodyTTF)

RenderWrap ==
  /\ tpc = "input"
  /\ twrapped' = WrappedRecords(ttitle, tlines, font_title, font_body)
  /\ tpc' = "wrapped"
  /\ UNCHANGED <<ttitle, tlines, tadd, tfontsOk, th, tprev, wvars, rvars>>

RenderHeight ==
  /\ tpc = "wrapped"
  /\ th' = TotalHeight(Len(twrapped), tadd)
  /\ tpc' = "sized"
  /\ UNCHANGED <<ttitle, tlines, tadd, tfontsOk, twrapped, tprev, wvars, rvars>>

NextTicket ==
  /\ tpc = "sized"
  /\ tprev = NoTicket
  /\ tprev' = [add |-> tadd, n |-> Len(twrapped), h |-> th]
  /\ DrawTicket
  /\ UNCHANGED <<wvars, rvars>>

NextRender == RenderWrap \/ RenderHeight \/ NextTicket

SpecRender == InitRender /\ [][NextRender]_vars

\* the number of records the layout rules give for the title
TitleCount ==
  IF strip(ttitle) = <<>> THEN 0
  ELSE Len(wrap_by_pixels(strip(ttitle), font_title, max_text_width))

\* the number of records the layout rules give for body line j
BodyCount(j) ==
  IF strip(tlines[j]) = <<>> THEN 1
  ELSE Len(wrap_by_pixels(strip(tlines[j]), font_body, max_text_width))

\* the index before the first record of body line j
RECURSIVE BodyOffset(_)
BodyOffset(j) == IF j = 1 THEN TitleCount ELSE BodyOffset(j - 1) + BodyCount(j - 1)

\* C9: the records are the wrapped title lines (none for a blank title) as
\* Title records, then for each body line in input order one empty Body
\* record if it is blank and otherwise one Body record per wrapped line; the
\* timestamp adds no record.
RecordSequence ==
  tpc \in {"wrapped", "sized"} =>
    /\ Len(twrapped) = BodyOffset(Len(tlines) + 1)
    /\ \A i \in 1..TitleCount :
         twrapped[i] = [kind |-> "title",
                        text |-> wrap_by_pixels(strip(ttitle), font_title, max_text_width)[i]]
    /\ \A j \in 1..Len(tlines) : \A i \in 1..BodyCount(j) :
         twrapped[BodyOffset(j) + i] =
           [kind |-> "body",
            text |-> IF strip(tlines[j]) = <<>> THEN <<>>
                     ELSE wrap_by_pixels(strip(tlines[j]), font_body, max_text_width)[i]]

\* a title wrapped into two records, then a blank body line, then a body line
RecordSequenceWitness ==
  /\ tpc = "wrapped"
  /\ Len(tlines) = 2
  /\ Len(twrapped) = 4
  /\ twrapped[2].kind = "title"
  /\ twrapped[3] = [kind |-> "body", text |-> <<>>]
  /\ twrapped[4].text # <<>>
  /\ tadd

\* C6: total_h is marginY + the reserved timestamp height + lineCount *
\* linePitch + bottomPadding, clamped to the minimum; so it is never below
\* the minimum and, for the same timestamp flag, a ticket with at least as
\* many records as the one before is at least as high.
CanvasHeight ==
  tpc = "sized" =>
    LET raw == MARGIN_Y + (IF tadd THEN SIZE_BODY + LINE_GAP ELSE 0)
               + Len(twrapped) * (SIZE_BODY + LINE_GAP) + EXTRA_BOTTOM
    IN /\ th = IF raw >= MIN_HEIGHT THEN raw ELSE MIN_HEIGHT
       /\ th >= MIN_HEIGHT
       /\ (tprev.n >= 0 /\ tprev.add = tadd /\ tprev.n <= Len(twrapped)) => tprev.h <= th

\* a clamped ticket followed by a higher one with more records
CanvasHeightWitness ==
  /\ tpc = "sized"
  /\ tprev.n >= 0 /\ tprev.add = tadd /\ tprev.n < Len(twrapped)
  /\ tprev.h = MIN_HEIGHT /\ th > MIN_HEIGHT

\* C7: an empty or whitespace-only title with no body lines and no
\* timestamp gives no records and a canvas of exactly the minimum height.
EmptyTicket ==
  (tpc = "sized" /\ strip(ttitle) = <<>> /\ tlines = <<>> /\ ~tadd) =>
    (twrapped = <<>> /\ th = MIN_HEIGHT)

\* the whitespace-only title has been rendered
EmptyTicketWitness ==
  tpc = "sized" /\ ttitle = <<" ", " ">> /\ tlines = <<>> /\ ~tadd /\ twrapped = <<>>

(***************************************************************************)
(* Specification of the server: NumReqs requests are handled concurrently. *)
(***************************************************************************)
Init == WrapIdle /\ RenderIdle /\ ReqIdle

Next == \E r \in Reqs : Handlers(r, "small") \/ Close(r)

Spec == Init /\ [][Next]_vars

\* C2: no request ever causes more than one client.publish call, and a
\* request that passed authentication and was rendered, once handled, has
\* caused exactly one, carrying the bitmap made for that request.
PublishOnce ==
  \A r \in Reqs :
    /\ Len(calls[r]) <= 1
    /\ (pc[r] = "done" /\ bitmap[r] # NoBitmap) =>
         /\ Len(calls[r]) = 1
         /\ calls[r][1].msg.data_base64.owner = r
         /\ calls[r][1].msg.data_base64.w = bitmap[r].w
         /\ calls[r][1].msg.data_base64.h = bitmap[r].h

\* one request has published while another, rendered, is about to
PublishOnceWitness ==
  \E r1, r2 \in Reqs :
    /\ r1 # r2
    /\ pc[r1] = "done" /\ Len(calls[r1]) = 1
    /\ pc[r2] = "ready" /\ bitmap[r2] # NoBitmap /\ bitmap[r2] # bitmap[r1]

Success == {"ok", "page_ok"}

\* C3: a request whose publish the transport did not accept is never
\* answered with success ({"ok": true} or the 'Gesendet' page).
TransportFailureReported ==
  \A r \in Reqs :
    (pc[r] = "done" /\ \E i \in 1..Len(calls[r]) : calls[r][i].outcome # "accepted")
      => resp[r].status \notin Success

\* C5: the cut_paper of every published message is 0 or 1; for a handler
\* with a cut flag (/print, /api/print/template) it is 1 for true (the
\* default) and 0 for false, and the handlers without one publish 1.
CutPaperFlag ==
  \A r \in Reqs : \A i \in 1..Len(calls[r]) :
    /\ calls[r][i].msg.cut_paper \in {0, 1}
    /\ rq[r].ep \in {"print", "api_template"} =>
         calls[r][i].msg.cut_paper = (IF rq[r].cut = "false" THEN 0 ELSE 1)
    /\ rq[r].ep \notin {"print", "api_template"} => calls[r][i].msg.cut_paper = 1

\* /print has published a message for a request with cut = false
CutPaperFlagWitness ==
  \E r \in Reqs :
    /\ rq[r].ep = "print" /\ rq[r].cut = "false"
    /\ Len(calls[r]) = 1 /\ calls[r][1].msg.cut_paper = 0

(***************************************************************************)
(* Specification of authentication: one request at a time, with every      *)
(* combination of key, cookie and password, while time passes and the      *)
(* browser keeps or drops its cookie.                                      *)
(***************************************************************************)
NextAuth == Handlers(1, "auth") \/ Close(1) \/ ui_logout \/ Tick

SpecAuth == Init /\ [][NextAuth]_vars

ApiEndpoints == {"print", "webhook", "api_template", "api_raw", "api_image"}

\* the request carries the API key, in the header or, without a header, in
\* the query
CarriesApiKey(q) ==
  q.hdr = APP_API_KEY \/ (q.hdr \in {None, ""} /\ q.qry = APP_API_KEY)

\* the cookie is "ts.sig" signed with the server's key and younger than
\* UI_REMEMBER_DAYS when the handler was entered
CarriesFreshCookie(q) ==
  \E ts \in 0..MaxNow :
    q.cookie = <<ts, Hmac(APP_API_KEY, ts)>> /\ q.at - ts < UI_REMEMBER_DAYS

\* C10: a message is published, and a bitmap made, only for a request the
\* handler authenticated: an API request carrying the API key, a UI request
\* carrying the API key, a fresh signed cookie or the UI password.
PublishOnlyAuthenticated ==
  \A r \in Reqs :
    (calls[r] # <<>> \/ bitmap[r] # NoBitmap) =>
      IF rq[r].ep \in ApiEndpoints THEN CarriesApiKey(rq[r])
      ELSE CarriesApiKey(rq[r]) \/ CarriesFreshCookie(rq[r]) \/ rq[r].pass = UI_PASS

\* a UI request with the browser's expired cookie, and neither key nor
\* password, was turned away with nothing published
PublishOnlyAuthenticatedWitness ==
  /\ pc[1] = "done" /\ rq[1].ep = "ui_template"
  /\ rq[1].cookie # <<>> /\ rq[1].cookie = sign_token(rq[1].cookie[1])
  /\ rq[1].at - rq[1].cookie[1] >= UI_REMEMBER_DAYS
  /\ resp[1].status = "page_err_auth" /\ calls[1] = <<>>

(***************************************************************************)
(* Specification of the image handlers: one upload at a time, of every     *)
(* size in range.                                                          *)
(***************************************************************************)
NextImage == api_print_image(1, "image") \/ ui_print_image(1, "image") \/ Close(1)

SpecImage == Init /\ [][NextImage]_vars

\* round(a / b), halves to even
RoundDiv(a, b) ==
  IF 2 * (a % b) < b THEN a \div b
  ELSE IF 2 * (a % b) > b THEN (a \div b) + 1
  ELSE (a \div b) + ((a \div b) % 2)

\* the size of the bitmap in request r's published message
PublishedSize(r) == <<calls[r][1].msg.data_base64.w, calls[r][1].msg.data_base64.h>>

\* C4 as stated: an upload of another width is published PRINT_WIDTH_PX
\* wide and round(h * PRINT_WIDTH_PX / w) high; one of that width keeps
\* its size.
ImageHeightRounded ==
  \A r \in Reqs :
    calls[r] # <<>> =>
      PublishedSize(r) =
        IF rq[r].file.w = PRINT_WIDTH_PX THEN <<rq[r].file.w, rq[r].file.h>>
        ELSE <<PRINT_WIDTH_PX, RoundDiv(rq[r].file.h * PRINT_WIDTH_PX, rq[r].file.w)>>

\* C4, amended: the height is int(h * (PRINT_WIDTH_PX / w)) in double
\* arithmetic: h * PRINT_WIDTH_PX / w rounded down, or one less than it when
\* it is a whole number; an upload of width PRINT_WIDTH_PX keeps its size.
ImageHeightTruncated ==
  \A r \in Reqs :
    calls[r] # <<>> =>
      LET w == rq[r].file.w
          hW == rq[r].file.h * PRINT_WIDTH_PX
      IN IF w = PRINT_WIDTH_PX THEN PublishedSize(r) = <<w, rq[r].file.h>>
         ELSE /\ PublishedSize(r)[1] = PRINT_WIDTH_PX
              /\ PublishedSize(r)[2] >= 1
              /\ \/ PublishedSize(r)[2] = hW \div w
                 \/ hW % w = 0 /\ PublishedSize(r)[2] = (hW \div w) - 1

\* a 1200 x 29 upload (13.92 lines at 576) was published 576 x 13
ImageHeightWitness ==
  /\ calls[1] # <<>>
  /\ rq[1].file.w = 1200 /\ rq[1].file.h = 29
  /\ PublishedSize(1) = <<PRINT_WIDTH_PX, 13>>

=============================================================================
